---- MODULE Spec2Model ----
(***************************************************************************)
(* tsconfck: resolution of tsconfig documents.                             *)
(*                                                                         *)
(*  - parse (own parser): find, parseFile, parseExtends (extends chain,    *)
(*    cycle detection), mergeExtended / extendTSConfig (override and path  *)
(*    rebasing), deleteInvalidKeys.                                        *)
(*  - parseNative: parseFile / checkErrors / result2tsconfig on the result *)
(*    of the TypeScript parser, parseReferences and the shared cache.      *)
(***************************************************************************)
EXTENDS Integers, Sequences, FiniteSets, TLC

VARIABLES
    fs,        \* own parser: filename -> tsconfig document on disk
    input,     \* own parser: the tsconfig file that find() returns
    pc,        \* own parser: position of parse()
    result,    \* own parser: the ParseResult under construction
    mi,        \* own parser: index of the next element of result.extended to merge
    outcome,   \* own parser: "run", "ok" or the kind of error thrown
    nfs,       \* native: configuration file -> what the typescript module reports for it
    conv,      \* native: the outcome of one parseFile, for the claims about parseFile alone
    cache,     \* native: options.cache, key -> cached result (NoValue: no entry)
    heap,      \* native: the ParseNativeResult object created for each configuration file
    calls      \* native: the parseNative calls, with their position and locals

parseVars == <<fs, input, pc, result, mi, outcome>>
nativeVars == <<nfs, conv, cache, heap, calls>>

----------------------------------------------------------------------------
(* Bounds of the model *)

\* number of configuration files on disk
NumFiles == 3
\* largest number of top-level keys (besides extends) of a generated document
MaxKeys == 2
\* largest number of segments of a generated relative path
MaxSegs == 2

----------------------------------------------------------------------------
(* Paths: a path is [abs, segs]; a filename is the segment list of an      *)
(* absolute path.                                                          *)

Min(a, b) == IF a < b THEN a ELSE b

RECURSIVE NormStep(_, _, _)
NormStep(todo, acc, abs) ==
    IF todo = <<>> THEN acc
    ELSE LET s == Head(todo) IN
         IF s = "." THEN NormStep(Tail(todo), acc, abs)
         ELSE IF s = ".."
              THEN IF acc # <<>> /\ acc[Len(acc)] # ".."
                   THEN NormStep(Tail(todo), SubSeq(acc, 1, Len(acc) - 1), abs)
                   ELSE IF abs THEN NormStep(Tail(todo), acc, abs)
                        ELSE NormStep(Tail(todo), Append(acc, s), abs)
              ELSE NormStep(Tail(todo), Append(acc, s), abs)

\* path.posix.normalize of a relative path
posixNormalize(segs) == NormStep(segs, <<>>, FALSE)

\* path.posix.join(prependPath, value)
posixJoin(prependPath, segs) == prependPath \o segs

\* path.dirname(filename)
dirname(filename) == SubSeq(filename, 1, Len(filename) - 1)

RECURSIVE CommonPrefix(_, _)
CommonPrefix(a, b) ==
    IF a = <<>> \/ b = <<>> \/ Head(a) # Head(b) THEN 0
    ELSE 1 + CommonPrefix(Tail(a), Tail(b))

\* path.relative(from, to) of two absolute directories
pathRelative(from, to) ==
    LET c == CommonPrefix(from, to)
    IN  [i \in 1..(Len(from) - c) |-> ".."] \o SubSeq(to, c + 1, Len(to))

\* the absolute location that path p denotes when resolved against directory dir
Resolve(dir, p) ==
    IF p.abs THEN NormStep(p.segs, <<>>, TRUE)
    ELSE NormStep(dir \o p.segs, <<>>, TRUE)

----------------------------------------------------------------------------
(* Values of a tsconfig document.  Every value has the same record shape:  *)
(*   t  = "atom" (a boolean, string or other non-path value, named by a),  *)
(*        "str"  (one path, ps[1]), "list" (a list of paths, ps),          *)
(*        "map"  (alias -> target(s), m), "undef" (JavaScript undefined)   *)

Atom(a)  == [t |-> "atom", a |-> a, ps |-> <<>>, m |-> <<>>]
Str(p)   == [t |-> "str",  a |-> <<>>, ps |-> <<p>>, m |-> <<>>]
List(ps) == [t |-> "list", a |-> <<>>, ps |-> ps, m |-> <<>>]
Map(m)   == [t |-> "map",  a |-> <<>>, ps |-> <<>>, m |-> m]
Undefined == [t |-> "undef", a |-> <<>>, ps |-> <<>>, m |-> <<>>]
\* the marker of a thrown TypeError inside a value computation
TypeError == [t |-> "TypeError", a |-> <<>>, ps |-> <<>>, m |-> <<>>]

Rel(segs) == [abs |-> FALSE, segs |-> segs]
Abs(segs) == [abs |-> TRUE, segs |-> segs]

----------------------------------------------------------------------------
(* Documents.  A tsconfig document is                                      *)
(*   ext    the file that its "extends" resolves to (NoExtends: no extends,*)
(*          Missing: a specifier that does not resolve)                    *)
(*   top    its other top-level keys, key -> value                         *)
(*   hasCO / co   whether it has compilerOptions, and option -> value      *)
(*   hasWO / wo   whether it has watchOptions, and option -> value         *)

NoExtends == <<>>
Missing == <<"missing">>
NoKeys == [k \in {} |-> Undefined]

Doc(ext, top, hasCO, co, hasWO, wo) ==
    [ext |-> ext, top |-> top, hasCO |-> hasCO, co |-> co, hasWO |-> hasWO, wo |-> wo]

VALID_KEYS ==
    {"extends", "compilerOptions", "files", "include", "exclude", "watchOptions",
     "references", "compileOnSave", "typeAcquisition"}

NEVER_INHERITED == {"references", "extends"}

REBASE_KEYS ==
    {"files", "include", "exclude",
     "baseUrl", "paths", "rootDir", "rootDirs", "typeRoots", "outDir", "outFile",
     "declarationDir",
     "excludeDirectories", "excludeFiles"}

\* the top-level keys of a document (Object.keys(tsconfig))
KeysOf(doc) ==
    DOMAIN doc.top
    \cup (IF doc.ext # NoExtends THEN {"extends"} ELSE {})
    \cup (IF doc.hasCO THEN {"compilerOptions"} ELSE {})
    \cup (IF doc.hasWO THEN {"watchOptions"} ELSE {})

deleteInvalidKeysNoop(tsconfig) == tsconfig

deleteInvalidKeys(tsconfig) ==
    LET keep(k) == k \in VALID_KEYS
    IN  [ext   |-> IF keep("extends") THEN tsconfig.ext ELSE NoExtends,
         top   |-> [k \in {x \in DOMAIN tsconfig.top : keep(x)} |-> tsconfig.top[k]],
         hasCO |-> tsconfig.hasCO /\ keep("compilerOptions"),
         co    |-> IF keep("compilerOptions") THEN tsconfig.co ELSE NoKeys,
         hasWO |-> tsconfig.hasWO /\ keep("watchOptions"),
         wo    |-> IF keep("watchOptions") THEN tsconfig.wo ELSE NoKeys]

rebasePath(value, prependPath) ==
    IF value.abs THEN value
    ELSE Rel(posixNormalize(posixJoin(prependPath, value.segs)))

\* path.isAbsolute throws a TypeError for an argument that is not a string:
\* undefined, a boolean, or the array that is the target list of a paths entry
rebaseRelative(key, value, prependPath) ==
    IF key \notin REBASE_KEYS THEN value
    ELSE IF value.t = "list"
         THEN List([i \in DOMAIN value.ps |-> rebasePath(value.ps[i], prependPath)])
    ELSE IF value.t = "map"
         THEN IF \E i \in DOMAIN value.m : value.m[i].t # "str"
              THEN TypeError
              ELSE Map([i \in DOMAIN value.m |->
                          [alias |-> value.m[i].alias, t |-> "str",
                           ps |-> <<rebasePath(value.m[i].ps[1], prependPath)>>]])
    ELSE IF value.t = "str"
         THEN Str(rebasePath(value.ps[1], prependPath))
    ELSE TypeError

\* extendTSConfig returns [err, doc]: err when the merge throws a TypeError,
\* otherwise doc is extending.tsconfig after the merge
extendTSConfig(extending, extended) ==
    LET ing == extending.tsconfig
        ed  == extended.tsconfig
        relativePath == pathRelative(dirname(extending.filename), dirname(extended.filename))
        \* key === 'compilerOptions'
        coTaken == ed.hasCO /\ "compilerOptions" \notin NEVER_INHERITED
        coThrows == coTaken /\ DOMAIN ed.co # {} /\ ~ing.hasCO
        newCO == IF coTaken /\ ing.hasCO
                 THEN [o \in DOMAIN ing.co \cup DOMAIN ed.co |->
                         IF o \in DOMAIN ing.co THEN ing.co[o]
                         ELSE rebaseRelative(o, ed.co[o], relativePath)]
                 ELSE ing.co
        \* key === 'watchOptions' and extendingConfig.watchOptions === undefined
        woTaken == ed.hasWO /\ "watchOptions" \notin NEVER_INHERITED /\ ~ing.hasWO
        woThrows == woTaken /\ DOMAIN ed.wo # {} /\ ~ed.hasCO
        newWO == IF woTaken /\ ~woThrows
                 THEN [o \in DOMAIN ed.wo |->
                         rebaseRelative(o,
                                        IF o \in DOMAIN ed.co THEN ed.co[o] ELSE Undefined,
                                        relativePath)]
                 ELSE ing.wo
        \* every other key that is not in NEVER_INHERITED
        newTop == [k \in DOMAIN ing.top \cup (DOMAIN ed.top \ NEVER_INHERITED) |->
                     IF k \in DOMAIN ing.top THEN ing.top[k]
                     ELSE rebaseRelative(k, ed.top[k], relativePath)]
        throws == \/ coThrows
                  \/ woThrows
                  \/ \E o \in DOMAIN newCO : newCO[o] = TypeError
                  \/ \E o \in DOMAIN newWO : newWO[o] = TypeError
                  \/ \E k \in DOMAIN newTop : newTop[k] = TypeError
    IN  [err |-> throws,
         doc |-> IF throws THEN ing
                 ELSE [ext   |-> ing.ext,
                       top   |-> newTop,
                       hasCO |-> ing.hasCO,
                       co    |-> newCO,
                       hasWO |-> ing.hasWO \/ woTaken,
                       wo    |-> newWO]]

----------------------------------------------------------------------------
(* parseNative: the result of the TypeScript parser and its conversion     *)

UpperCase == <<"A", "B", "C", "D", "E", "F", "G", "H", "I", "J", "K", "L", "M", "N", "O", "P", "Q", "R", "S", "T", "U", "V", "W", "X", "Y", "Z">>
LowerCase == <<"a", "b", "c", "d", "e", "f", "g", "h", "i", "j", "k", "l", "m", "n", "o", "p", "q", "r", "s", "t", "u", "v", "w", "x", "y", "z">>

\* String.prototype.toLowerCase on one character
lowerChar(c) ==
    IF \E i \in DOMAIN UpperCase : UpperCase[i] = c
    THEN LowerCase[CHOOSE i \in DOMAIN UpperCase : UpperCase[i] = c]
    ELSE c

toLowerCase(str) == [i \in DOMAIN str |-> lowerChar(str[i])]

\* enumVal.charAt(0).toLowerCase() + enumVal.slice(1)
lowerFirst(str) == [i \in DOMAIN str |-> IF i = 1 THEN lowerChar(str[i]) ELSE str[i]]

\* the enumerations of the typescript module (code -> name), as result2tsconfig reads them
ImportsNotUsedAsValues ==
    0 :> <<"R", "e", "m", "o", "v", "e">>
    @@ 1 :> <<"P", "r", "e", "s", "e", "r", "v", "e">>
    @@ 2 :> <<"E", "r", "r", "o", "r">>

ModuleKind ==
    0 :> <<"N", "o", "n", "e">>
    @@ 1 :> <<"C", "o", "m", "m", "o", "n", "J", "S">>
    @@ 5 :> <<"E", "S", "2", "0", "1", "5">>
    @@ 99 :> <<"E", "S", "N", "e", "x", "t">>
    @@ 100 :> <<"N", "o", "d", "e", "1", "6">>

ScriptTarget ==
    0 :> <<"E", "S", "3">>
    @@ 1 :> <<"E", "S", "5">>
    @@ 2 :> <<"E", "S", "2", "0", "1", "5">>
    @@ 99 :> <<"L", "a", "t", "e", "s", "t">>

WatchFileKind ==
    0 :> <<"F", "i", "x", "e", "d", "P", "o", "l", "l", "i", "n", "g", "I", "n", "t", "e", "r", "v", "a", "l">>
    @@ 4 :> <<"U", "s", "e", "F", "s", "E", "v", "e", "n", "t", "s">>

WatchDirectoryKind ==
    0 :> <<"U", "s", "e", "F", "s", "E", "v", "e", "n", "t", "s">>
    @@ 2 :> <<"D", "y", "n", "a", "m", "i", "c", "P", "r", "i", "o", "r", "i", "t", "y", "P", "o", "l", "l", "i", "n", "g">>

PollingWatchKind ==
    0 :> <<"F", "i", "x", "e", "d", "I", "n", "t", "e", "r", "v", "a", "l">>
    @@ 2 :> <<"D", "y", "n", "a", "m", "i", "c", "P", "r", "i", "o", "r", "i", "t", "y">>

\* the tables that result2tsconfig uses instead of ts.ModuleResolutionKind and ts.NewLineKind
moduleResolutionNames ==
    1 :> <<"c", "l", "a", "s", "s", "i", "c">>
    @@ 2 :> <<"n", "o", "d", "e">>

newLineNames ==
    0 :> <<"c", "r", "l", "f">>
    @@ 1 :> <<"l", "f">>

\* the codes of ts.ModuleResolutionKind (Classic, Node10, Node16, NodeNext, Bundler)
ModuleResolutionKind == {1, 2, 3, 99, 100}

\* the codes of ts.NewLineKind
NewLineKind == {0, 1}

\* a field of the parser's options is a numeric code or a string
Num(code) == [num |-> TRUE, code |-> code, str |-> <<>>]
StrVal(str) == [num |-> FALSE, code |-> 0, str |-> str]

\* a diagnostic of the parser; category 1 is Error (0 Warning, 2 Suggestion, 3 Message)
Diag(category, code, messageText) ==
    [category |-> category, code |-> code, messageText |-> messageText]
NoDiag == Diag(-1, 0, "")

NoFields == [k \in {} |-> Num(0)]

\* what the typescript module reports for a configuration file:
\*   readError     the error of readConfigFile, or NoDiag
\*   errors, options, hasWatch/watchOptions, raw: the result of
\*   parseJsonConfigFileContent (raw: the document as written, of which the
\*   model keeps compilerOptions, references and compileOnSave)
NativeFile(readError, errors, options, hasWatch, watchOptions, rawHasCO, hasRefs, references, compileOnSave) ==
    [readError |-> readError,
     nativeResult |->
        [errors |-> errors, options |-> options,
         hasWatch |-> hasWatch, watchOptions |-> watchOptions,
         raw |-> [hasCO |-> rawHasCO, hasRefs |-> hasRefs, references |-> references,
                  compileOnSave |-> compileOnSave]]]

NoNativeResult ==
    [errors |-> <<>>, options |-> NoFields, hasWatch |-> FALSE, watchOptions |-> NoFields,
     raw |-> [hasCO |-> FALSE, hasRefs |-> FALSE, references |-> <<>>,
              compileOnSave |-> FALSE]]

NoTSConfig ==
    [hasCO |-> FALSE, co |-> NoFields, hasWO |-> FALSE, wo |-> NoFields,
     hasRefs |-> FALSE, references |-> <<>>, hasCompileOnSave |-> FALSE]

\* errors: name is "none", "ParseNativeError" or "TypeError"
NoError ==
    [name |-> "none", code |-> <<>>, message |-> "", diagnostic |-> NoDiag,
     hasResult |-> FALSE, result |-> NoNativeResult]

\* new ParseNativeError(diagnostic, result); result may be null
ParseNativeError(diagnostic, hasResult, nativeResult) ==
    [name |-> "ParseNativeError",
     code |-> <<"TS ", diagnostic.code>>,
     message |-> diagnostic.messageText,
     diagnostic |-> diagnostic,
     hasResult |-> hasResult,
     result |-> nativeResult]

JSTypeError == [NoError EXCEPT !.name = "TypeError"]

ignoredErrorCodes == {18002, 18003}

isCritical(error) == error.category = 1 /\ error.code \notin ignoredErrorCodes

\* checkErrors returns the error that it throws, or NoError
checkErrors(nativeResult) ==
    LET errors == nativeResult.errors
        found == {i \in DOMAIN errors : isCritical(errors[i])}
    IN  IF found = {} THEN NoError
        ELSE LET first == CHOOSE i \in found : \A j \in found : i <= j
             IN  ParseNativeError(errors[first], TRUE, nativeResult)

ignoredOptions == {"configFilePath", "pathsBasePath"}

\* prop.enumeration of the five compilerOptions properties
compilerEnumeration(name) ==
    IF name = "importsNotUsedAsValues" THEN ImportsNotUsedAsValues
    ELSE IF name = "module" THEN ModuleKind
    ELSE IF name = "moduleResolution" THEN moduleResolutionNames
    ELSE IF name = "newLine" THEN newLineNames
    ELSE ScriptTarget

compilerEnumProperties ==
    {"importsNotUsedAsValues", "module", "moduleResolution", "newLine", "target"}

watchEnumeration(name) ==
    IF name = "watchFile" THEN WatchFileKind
    ELSE IF name = "watchDirectory" THEN WatchDirectoryKind
    ELSE PollingWatchKind

watchEnumProperties == {"watchFile", "watchDirectory", "fallbackPolling"}

\* result2tsconfig returns [err, tsconfig]; err when enumeration[code] is
\* undefined and .toLowerCase() / .charAt(0) throws a TypeError
result2tsconfig(nativeResult) ==
    LET raw == nativeResult.raw
        useOptions == \E o \in DOMAIN nativeResult.options : o \notin ignoredOptions
        hasCO == useOptions \/ raw.hasCO
        co0 == IF useOptions
               THEN [o \in DOMAIN nativeResult.options \ ignoredOptions |->
                       nativeResult.options[o]]
               ELSE NoFields
        coMissing == \E n \in compilerEnumProperties \cap DOMAIN co0 :
                        co0[n].num /\ co0[n].code \notin DOMAIN compilerEnumeration(n)
        co == [o \in DOMAIN co0 |->
                 IF o \in compilerEnumProperties /\ co0[o].num
                        /\ co0[o].code \in DOMAIN compilerEnumeration(o)
                 THEN StrVal(toLowerCase(compilerEnumeration(o)[co0[o].code]))
                 ELSE co0[o]]
        wo0 == IF nativeResult.hasWatch THEN nativeResult.watchOptions ELSE NoFields
        woMissing == \E n \in watchEnumProperties \cap DOMAIN wo0 :
                        wo0[n].num /\ wo0[n].code \notin DOMAIN watchEnumeration(n)
        wo == [o \in DOMAIN wo0 |->
                 IF o \in watchEnumProperties /\ wo0[o].num
                        /\ wo0[o].code \in DOMAIN watchEnumeration(o)
                 THEN StrVal(lowerFirst(watchEnumeration(o)[wo0[o].code]))
                 ELSE wo0[o]]
    IN  IF coMissing \/ woMissing
        THEN [err |-> TRUE, tsconfig |-> NoTSConfig]
        ELSE [err |-> FALSE,
              tsconfig |->
                 [hasCO |-> hasCO, co |-> co,
                  hasWO |-> nativeResult.hasWatch, wo |-> wo,
                  hasRefs |-> raw.hasRefs, references |-> raw.references,
                  hasCompileOnSave |-> raw.compileOnSave]]

\* the body of parseFile after the cache lookup (58-84): returns [error,
\* tsconfig, result]; error.name = "none" when it returns a result
parseConfig(file) ==
    IF file.readError # NoDiag
    THEN [error |-> ParseNativeError(file.readError, FALSE, NoNativeResult),
          tsconfig |-> NoTSConfig, result |-> NoNativeResult]
    ELSE LET nativeResult == file.nativeResult
             critical == checkErrors(nativeResult)
             converted == result2tsconfig(nativeResult)
         IN  IF critical # NoError
             THEN [error |-> critical, tsconfig |-> NoTSConfig, result |-> NoNativeResult]
             ELSE IF converted.err
             THEN [error |-> JSTypeError, tsconfig |-> NoTSConfig, result |-> NoNativeResult]
             ELSE [error |-> NoError, tsconfig |-> converted.tsconfig,
                   result |-> nativeResult]

----------------------------------------------------------------------------
(* The files on disk *)

FileList ==
    << <<"p", "a", "tsconfig.json">>,
       <<"p", "b", "base.json">>,
       <<"p", "tsconfig.json">>,
       <<"p", "a", "base.json">>,
       <<"q", "r", "tsconfig.json">> >>

Files == {FileList[i] : i \in 1..Min(NumFiles, Len(FileList))}

\* fs.readFile + toJson + JSON.parse
parseFile(tsconfigFile) == [filename |-> tsconfigFile, tsconfig |-> fs[tsconfigFile]]

\* createRequire(from).resolve(extended): the document holds the file that the
\* specifier resolves to, or Missing
resolveExtends(extended, from) ==
    IF extended \in Files THEN extended ELSE Missing

FALSE_VALUE == Atom(<<"false">>)

NoResult == [filename |-> <<>>, tsconfig |-> Doc(NoExtends, NoKeys, FALSE, NoKeys, FALSE, NoKeys),
             extended |-> <<>>]

----------------------------------------------------------------------------
(* parse(filename), one action per step *)

\* the filenames of extended.concat({filename: extendedTSConfigFile}), which the
\* error message joins with ' -> '
circleNoRepeat(extended, extendedTSConfigFile) ==
    [i \in 1..Len(extended) |-> extended[i].filename]

circle(extended, extendedTSConfigFile) ==
    [i \in 1..(Len(extended) + 1) |->
       IF i <= Len(extended) THEN extended[i].filename ELSE extendedTSConfigFile]

\* lines 14-19 and the head of parseExtends (55-62)
ParseStart ==
    /\ pc = "start"
    /\ LET parseResult == parseFile(input)
           tsconfig ==
               IF "compileOnSave" \in DOMAIN parseResult.tsconfig.top
               THEN parseResult.tsconfig
               ELSE [parseResult.tsconfig EXCEPT
                       !.top = [k \in DOMAIN @ \cup {"compileOnSave"} |->
                                  IF k = "compileOnSave" THEN FALSE_VALUE ELSE @[k]]]
       IN  IF tsconfig.ext = NoExtends
           THEN /\ result' = [filename |-> input, tsconfig |-> tsconfig, extended |-> <<>>]
                /\ pc' = "delete"
           ELSE /\ result' = [filename |-> input, tsconfig |-> tsconfig,
                              extended |-> << [filename |-> input, tsconfig |-> tsconfig] >>]
                /\ pc' = "extends"
    /\ UNCHANGED <<fs, input, mi, outcome>>
    /\ UNCHANGED nativeVars

\* one iteration of the while loop of parseExtends (64-75), or its exit (76)
ExtendLoad ==
    /\ pc = "extends"
    /\ LET extended == result.extended
           extending == extended[Len(extended)]
       IN  /\ extending.tsconfig.ext # NoExtends
           /\ LET extendedTSConfigFile ==
                      resolveExtends(extending.tsconfig.ext, extending.filename)
              IN  /\ extendedTSConfigFile # Missing
                  /\ ~\E i \in DOMAIN extended : extended[i].filename = extendedTSConfigFile
                  /\ result' = [result EXCEPT
                                  !.extended = Append(@, parseFile(extendedTSConfigFile))]
    /\ UNCHANGED <<fs, input, pc, mi, outcome>>
    /\ UNCHANGED nativeVars

ExtendResolveError ==
    /\ pc = "extends"
    /\ LET extending == result.extended[Len(result.extended)]
       IN  /\ extending.tsconfig.ext # NoExtends
           /\ resolveExtends(extending.tsconfig.ext, extending.filename) = Missing
    /\ pc' = "done"
    /\ outcome' = [kind |-> "ResolveError", circle |-> <<>>]
    /\ UNCHANGED <<fs, input, result, mi>>
    /\ UNCHANGED nativeVars

ExtendCircular ==
    /\ pc = "extends"
    /\ LET extended == result.extended
           extending == extended[Len(extended)]
       IN  /\ extending.tsconfig.ext # NoExtends
           /\ LET extendedTSConfigFile ==
                      resolveExtends(extending.tsconfig.ext, extending.filename)
              IN  /\ \E i \in DOMAIN extended : extended[i].filename = extendedTSConfigFile
                  /\ outcome' = [kind |-> "Circular",
                                  circle |-> circle(extended, extendedTSConfigFile)]
    /\ pc' = "done"
    /\ UNCHANGED <<fs, input, result, mi>>
    /\ UNCHANGED nativeVars

ExtendDone ==
    /\ pc = "extends"
    /\ result.extended[Len(result.extended)].tsconfig.ext = NoExtends
    /\ pc' = "merge"
    /\ mi' = 2
    /\ UNCHANGED <<fs, input, result, outcome>>
    /\ UNCHANGED nativeVars

\* mergeExtended (88-94): one extendTSConfig per step, skipping extended[0]
MergeOne ==
    /\ pc = "merge"
    /\ mi <= Len(result.extended)
    /\ LET r == extendTSConfig(result, result.extended[mi])
       IN  /\ ~r.err
           /\ result' = [result EXCEPT !.tsconfig = r.doc]
    /\ mi' = mi + 1
    /\ UNCHANGED <<fs, input, pc, outcome>>
    /\ UNCHANGED nativeVars

MergeThrows ==
    /\ pc = "merge"
    /\ mi <= Len(result.extended)
    /\ extendTSConfig(result, result.extended[mi]).err
    /\ pc' = "done"
    /\ outcome' = [kind |-> "TypeError", circle |-> <<>>]
    /\ UNCHANGED <<fs, input, result, mi>>
    /\ UNCHANGED nativeVars

MergeDone ==
    /\ pc = "merge"
    /\ mi > Len(result.extended)
    /\ pc' = "delete"
    /\ UNCHANGED <<fs, input, result, mi, outcome>>
    /\ UNCHANGED nativeVars

\* lines 21-22
DeleteInvalid ==
    /\ pc = "delete"
    /\ result' = [result EXCEPT !.tsconfig = deleteInvalidKeys(@)]
    /\ pc' = "done"
    /\ outcome' = [kind |-> "ok", circle |-> <<>>]
    /\ UNCHANGED <<fs, input, mi>>
    /\ UNCHANGED nativeVars

----------------------------------------------------------------------------
(* Inputs: the contents of the disk and the file that parse starts from.   *)
(* Three families of inputs are generated.                                 *)

F1 == FileList[1]
F2 == FileList[2]
F3 == FileList[3]

\* the name of the directory of a file, used to tell values of files apart
Tag(f) == <<f[Len(f) - 1], f[Len(f)]>>

PlainDoc(f) ==
    Doc(NoExtends, [k \in {"foo"} |-> Atom(Tag(f))], FALSE, NoKeys, FALSE, NoKeys)

(* 1. merge family: the chain F1 extends F2 extends F3, each document with *)
(*    at most MaxKeys of the keys below                                    *)
GenKeys == {"files", "compileOnSave", "foo", "watchOptions", "compilerOptions"}

GenTop(f, K) ==
    [k \in K \cap {"files", "compileOnSave", "foo"} |->
       IF k = "files" THEN List(<<Rel(<<"src">>)>>) ELSE Atom(Tag(f))]

GenCO(f, c) ==
    IF c = 0 THEN NoKeys
    ELSE [o \in {"strict", "outDir"} |->
            IF o = "strict" THEN Atom(Tag(f)) ELSE Str(Rel(<<"out">>))]

GenWO(f) ==
    [o \in {"watchFile", "excludeDirectories"} |->
       IF o = "watchFile" THEN Atom(Tag(f)) ELSE List(<<Rel(<<"tmp">>)>>)]

GenDocs(f, ext) ==
    { Doc(ext, GenTop(f, K),
          "compilerOptions" \in K, IF "compilerOptions" \in K THEN GenCO(f, c) ELSE NoKeys,
          "watchOptions" \in K, IF "watchOptions" \in K THEN GenWO(f) ELSE NoKeys) :
        K \in {X \in SUBSET GenKeys : Cardinality(X) <= MaxKeys}, c \in {0, 1} }

MergeFamily ==
    { [fs |-> [f \in Files |->
                 IF f = F1 THEN d1 ELSE IF f = F2 THEN d2 ELSE IF f = F3 THEN d3
                 ELSE PlainDoc(f)],
       input |-> F1] :
        d1 \in GenDocs(F1, F2), d2 \in GenDocs(F2, F3), d3 \in GenDocs(F3, NoExtends) }

(* 2. chain family: every file extends nothing, a file, or a specifier     *)
(*    that does not resolve; parse starts from any file                    *)
ChainDoc(f, ext) ==
    IF f = F1
    THEN Doc(ext, [k \in {"references"} |-> Atom(Tag(f))],
             TRUE, [o \in {"strict"} |-> Atom(Tag(f))], FALSE, NoKeys)
    ELSE IF f = F2
    THEN Doc(ext, [k \in {"references", "typeAcquisition", "bar"} |-> Atom(Tag(f))],
             TRUE, [o \in {"module"} |-> Atom(Tag(f))], FALSE, NoKeys)
    ELSE IF f = F3
    THEN Doc(ext, [k \in {"include", "exclude", "typeAcquisition", "foo"} |->
                     IF k \in {"include", "exclude"} THEN List(<<Rel(<<"..", k>>)>>)
                     ELSE Atom(Tag(f))],
             TRUE, NoKeys, FALSE, NoKeys)
    ELSE Doc(ext, [k \in {"foo", "compileOnSave"} |-> Atom(Tag(f))],
             FALSE, NoKeys, FALSE, NoKeys)

ChainFamily ==
    { [fs |-> [f \in Files |-> ChainDoc(f, e[f])], input |-> s] :
        e \in [Files -> Files \cup {NoExtends, Missing}], s \in Files }

(* 3. rebase family: s extends m extends t, and one of m, t carries one    *)
(*    path-valued entry                                                    *)
Segs == {"..", ".", "src"}

RECURSIVE SeqsUpTo(_, _)
SeqsUpTo(S, n) ==
    IF n = 0 THEN {<<>>}
    ELSE LET shorter == SeqsUpTo(S, n - 1)
         IN  shorter \cup {Append(q, x) : q \in {y \in shorter : Len(y) = n - 1}, x \in S}

GenPaths == {Rel(q) : q \in SeqsUpTo(Segs, MaxSegs) \ {<<>>}} \cup {Abs(<<"abs", "lib">>)}

\* an entry is [at, key, value]: at is "top", "co" or "wo"
GenEntries ==
    UNION { { [at |-> "top", key |-> "files", value |-> List(<<p>>)],
              [at |-> "top", key |-> "files", value |-> List(<<p, Rel(<<"..", "lib">>)>>)],
              [at |-> "co", key |-> "outDir", value |-> Str(p)],
              [at |-> "co", key |-> "tsBuildInfoFile", value |-> Str(p)],
              [at |-> "co", key |-> "paths",
               value |-> Map(<< [alias |-> "@", t |-> "str", ps |-> <<p>>] >>)],
              [at |-> "co", key |-> "paths",
               value |-> Map(<< [alias |-> "@", t |-> "list", ps |-> <<p>>] >>)],
              [at |-> "wo", key |-> "excludeDirectories", value |-> List(<<p>>)] } :
            p \in GenPaths }

CarrierDoc(ext, e) ==
    Doc(ext,
        IF e.at = "top" THEN [k \in {e.key} |-> e.value] ELSE NoKeys,
        e.at # "top",
        IF e.at = "co" THEN [k \in {e.key} |-> e.value] ELSE NoKeys,
        e.at = "wo",
        IF e.at = "wo" THEN [k \in {e.key} |-> e.value] ELSE NoKeys)

BareDoc(ext, hasCO) == Doc(ext, NoKeys, hasCO, NoKeys, FALSE, NoKeys)

RebaseFamily ==
    { [fs |-> [f \in Files |->
                 IF f = c.s THEN BareDoc(c.m, c.hasCO)
                 ELSE IF f = c.m
                      THEN IF c.near THEN CarrierDoc(c.t, c.e) ELSE BareDoc(c.t, TRUE)
                 ELSE IF f = c.t
                      THEN IF c.near THEN BareDoc(NoExtends, TRUE)
                           ELSE CarrierDoc(NoExtends, c.e)
                 ELSE PlainDoc(f)],
       input |-> c.s] :
        c \in { x \in [s : Files, m : Files, t : Files, near : BOOLEAN,
                       hasCO : BOOLEAN, e : GenEntries] :
                  x.s # x.m /\ x.m # x.t /\ x.s # x.t } }

Inputs == MergeFamily \cup ChainFamily \cup RebaseFamily

----------------------------------------------------------------------------
(* parseNative with a shared cache *)

\* number of parseNative calls
MaxCalls == 2
\* largest number of diagnostics that the parser reports for a file
MaxDiags == 2
\* largest number of enum-valued fields of the generated compilerOptions / watchOptions
MaxFields == 1

NativeConfigs == {"S", "X", "Y"}
Sources == {"a.ts"}
NativeInputs == NativeConfigs \cup Sources
CallIds == 1..MaxCalls

\* a result as a cache entry, a return value or an element of `referenced`:
\*   kind "ref": the ParseNativeResult object that parseFile created for `file`
\*   kind "copy": the object {...referenced, solution: result} that call `by` created
NoValue ==
    [kind |-> "none", file |-> "", solution |-> "", by |-> 0,
     hasReferenced |-> FALSE, referenced |-> <<>>]
Ref(file) == [NoValue EXCEPT !.kind = "ref", !.file = file]

NoObject == [exists |-> FALSE, hasReferenced |-> FALSE, referenced |-> <<>>]
NewObject == [exists |-> TRUE, hasReferenced |-> FALSE, referenced |-> <<>>]

\* the `referenced` field of a result, as it is now
ReferencedOf(value, heapNow) ==
    IF value.kind = "ref"
    THEN [has |-> heapNow[value.file].hasReferenced, list |-> heapNow[value.file].referenced]
    ELSE [has |-> value.hasReferenced, list |-> value.referenced]

\* resolveTSConfig: the path itself when it names a configuration file
resolveTSConfig(filename) == IF filename \in NativeConfigs THEN filename ELSE ""

\* findNative: the nearest configuration file of a source file
findNative(filename) == "S"

\* whether the configuration file of a result includes the source file
isIncluded(filename, value) == filename \in Sources /\ value.file = "X"

\* resolveReferencedTSConfigFiles: the files that result.tsconfig.references name
resolveReferencedTSConfigFiles(tsconfig) == tsconfig.references

\* resolveSolutionTSConfig(filename, result): when the result's own configuration
\* does not include the file and a referenced project does, that project's
\* result with solution set to the result
resolveSolutionTSConfig(filename, value, heapNow, by) ==
    LET referenced == ReferencedOf(value, heapNow)
        owners == {i \in DOMAIN referenced.list : isIncluded(filename, referenced.list[i])}
    IN  IF filename \in Sources /\ ~isIncluded(filename, value) /\ referenced.has
              /\ owners # {}
        THEN LET owner == referenced.list[CHOOSE i \in owners : \A j \in owners : i <= j]
                 ownerReferenced == ReferencedOf(owner, heapNow)
             IN  [kind |-> "copy", file |-> owner.file, solution |-> value.file, by |-> by,
                  hasReferenced |-> ownerReferenced.has,
                  referenced |-> ownerReferenced.list]
        ELSE value

\* line 40, cache.set(tsconfigFile, result), runs before line 44 replaces result
tsconfigFileEntryAfterSolution(parsed, enriched) == enriched

tsconfigFileEntry(parsed, enriched) == parsed

\* parseFile(tsconfigFile, ts, cache) on the state st = [cache, heap]: returns the
\* error that it throws (or NoError), the result, and the state after it
nativeParseFile(tsconfigFile, st) ==
    IF st.cache[tsconfigFile] # NoValue
    THEN [error |-> NoError, value |-> st.cache[tsconfigFile], st |-> st]
    ELSE LET r == parseConfig(nfs[tsconfigFile])
         IN  IF r.error # NoError
             THEN [error |-> r.error, value |-> NoValue, st |-> st]
             ELSE [error |-> NoError, value |-> Ref(tsconfigFile),
                   st |-> [cache |-> [st.cache EXCEPT ![tsconfigFile] = Ref(tsconfigFile)],
                           heap |-> [st.heap EXCEPT ![tsconfigFile] = NewObject]]]

\* referencedFiles.map((file) => parseFile(file, ts, cache)): every file is
\* parsed, in order, also after one of them has failed
RECURSIVE mapParseFile(_, _, _)
mapParseFile(files, st, done) ==
    IF files = <<>> THEN [results |-> done, st |-> st]
    ELSE LET r == nativeParseFile(Head(files), st)
         IN  mapParseFile(Tail(files), r.st,
                          Append(done, [error |-> r.error, value |-> r.value]))

IdleCall ==
    [pc |-> "idle", filename |-> "", tsconfigFile |-> "", result |-> NoValue,
     refResults |-> <<>>, ret |-> NoValue, retReferenced |-> [has |-> FALSE, list |-> <<>>],
     error |-> NoError, after |-> {}]

Finished == {c \in CallIds : calls[c].pc = "done"}

\* lines 40-47: cache.set(tsconfigFile, result) when the file was parsed by this
\* call, the solution, cache.set(filename, result), return
Return(c, tsconfigFile, value, viaParse) ==
    LET enriched == resolveSolutionTSConfig(calls[c].filename, value, heap, c)
        cached == IF viaParse
                  THEN [cache EXCEPT ![tsconfigFile] = tsconfigFileEntry(value, enriched)]
                  ELSE cache
    IN  /\ cache' = [cached EXCEPT ![calls[c].filename] = enriched]
        /\ UNCHANGED heap
        /\ calls' = [calls EXCEPT ![c].pc = "done",
                                  ![c].tsconfigFile = tsconfigFile,
                                  ![c].result = value,
                                  ![c].ret = enriched,
                                  ![c].retReferenced = ReferencedOf(enriched, heap)]

Throw(c, error) ==
    calls' = [calls EXCEPT ![c].pc = "done", ![c].error = error]

\* lines 25-29: the lookup of the cache under filename
ParseNativeBegin(c, filename) ==
    /\ calls[c].pc = "idle"
    /\ IF c = 1 THEN TRUE ELSE calls[c - 1].pc # "idle"
    /\ IF cache[filename] # NoValue
       THEN calls' = [calls EXCEPT ![c].pc = "done",
                                   ![c].filename = filename,
                                   ![c].after = Finished,
                                   ![c].ret = cache[filename],
                                   ![c].retReferenced = ReferencedOf(cache[filename], heap)]
       ELSE calls' = [calls EXCEPT ![c].pc = "resolve",
                                   ![c].filename = filename,
                                   ![c].after = Finished]
    /\ UNCHANGED <<nfs, conv, cache, heap>>
    /\ UNCHANGED parseVars

\* lines 29-37: resolveTSConfig / findNative, then the lookup under tsconfigFile
ParseNativeResolved(c) ==
    /\ calls[c].pc = "resolve"
    /\ LET found == resolveTSConfig(calls[c].filename)
           tsconfigFile == IF found = "" THEN findNative(calls[c].filename) ELSE found
       IN  IF cache[tsconfigFile] # NoValue
           THEN Return(c, tsconfigFile, cache[tsconfigFile], FALSE)
           ELSE /\ calls' = [calls EXCEPT ![c].pc = "parse",
                                          ![c].tsconfigFile = tsconfigFile]
                /\ UNCHANGED <<cache, heap>>
    /\ UNCHANGED <<nfs, conv>>
    /\ UNCHANGED parseVars

\* line 38: parseFile(tsconfigFile, ts, cache)
ParseNativeParseFile(c) ==
    /\ calls[c].pc = "parse"
    /\ LET r == nativeParseFile(calls[c].tsconfigFile, [cache |-> cache, heap |-> heap])
       IN  IF r.error # NoError
           THEN /\ Throw(c, r.error)
                /\ UNCHANGED <<cache, heap>>
           ELSE /\ calls' = [calls EXCEPT ![c].pc = "references", ![c].result = r.value]
                /\ cache' = r.st.cache
                /\ heap' = r.st.heap
    /\ UNCHANGED <<nfs, conv>>
    /\ UNCHANGED parseVars

\* lines 94-98 up to the await: the parseFile of every referenced file
ParseReferencesStart(c) ==
    /\ calls[c].pc = "references"
    /\ LET tsconfig == parseConfig(nfs[calls[c].result.file]).tsconfig
       IN  IF ~tsconfig.hasRefs
           THEN /\ calls' = [calls EXCEPT ![c].pc = "store"]
                /\ UNCHANGED <<cache, heap>>
           ELSE LET r == mapParseFile(resolveReferencedTSConfigFiles(tsconfig),
                                      [cache |-> cache, heap |-> heap], <<>>)
                IN  /\ calls' = [calls EXCEPT ![c].pc = "join",
                                              ![c].refResults = r.results]
                    /\ cache' = r.st.cache
                    /\ heap' = r.st.heap
    /\ UNCHANGED <<nfs, conv>>
    /\ UNCHANGED parseVars

\* line 98 after Promise.all: the first rejection, or result.referenced = [...]
ParseReferencesJoin(c) ==
    /\ calls[c].pc = "join"
    /\ LET rs == calls[c].refResults
           failed == {i \in DOMAIN rs : rs[i].error # NoError}
       IN  IF failed # {}
           THEN /\ Throw(c, rs[CHOOSE i \in failed : \A j \in failed : i <= j].error)
                /\ UNCHANGED heap
           ELSE /\ heap' = [heap EXCEPT
                              ![calls[c].result.file] =
                                 [exists |-> TRUE, hasReferenced |-> TRUE,
                                  referenced |-> [i \in DOMAIN rs |-> rs[i].value]]]
                /\ calls' = [calls EXCEPT ![c].pc = "store"]
    /\ UNCHANGED <<nfs, conv, cache>>
    /\ UNCHANGED parseVars

\* lines 40-47
ParseNativeFinish(c) ==
    /\ calls[c].pc = "store"
    /\ Return(c, calls[c].tsconfigFile, calls[c].result, TRUE)
    /\ UNCHANGED <<nfs, conv>>
    /\ UNCHANGED parseVars

\* one parseFile without a cache, for the claims about parseFile alone
NoConv == [file |-> "", out |-> [error |-> NoError, tsconfig |-> NoTSConfig,
                                  result |-> NoNativeResult]]

ConvertFile(file) ==
    /\ conv = NoConv
    /\ conv' = [file |-> file, out |-> parseConfig(nfs[file])]
    /\ UNCHANGED <<nfs, cache, heap, calls>>
    /\ UNCHANGED parseVars

----------------------------------------------------------------------------
(* Inputs of the native parser *)

BaseOptions == [o \in {"configFilePath"} |-> StrVal(<<"/", "p">>)]

PlainNative ==
    NativeFile(NoDiag, <<>>, BaseOptions, FALSE, NoFields, TRUE, FALSE, <<>>, FALSE)

MessageOf(code) ==
    IF code = 18002 THEN "The 'files' list in config file is empty."
    ELSE IF code = 18003 THEN "No inputs were found in config file."
    ELSE IF code = 5023 THEN "Unknown compiler option."
    ELSE IF code = 6046 THEN "Argument for option must be one of the listed values."
    ELSE "Cannot read file."

GenDiags == {Diag(c, code, MessageOf(code)) : c \in 0..3, code \in {18002, 18003, 5023, 6046}}

ReadError == Diag(1, 5083, MessageOf(5083))

(* 1. diagnostics family: any list of at most MaxDiags diagnostics, with or *)
(*    without an error of readConfigFile                                    *)
DiagFamily ==
    { NativeFile(r, errors, [o \in {"configFilePath", "target"} |->
                               IF o = "target" THEN Num(1) ELSE BaseOptions[o]],
                 FALSE, NoFields, TRUE, FALSE, <<>>, FALSE) :
        r \in {NoDiag, ReadError}, errors \in SeqsUpTo(GenDiags, MaxDiags) }

(* 2. options family: no diagnostic; at most MaxFields enum-valued fields in *)
(*    the options and in the watchOptions, each with a code of its enum      *)
ParserCodes(name) ==
    IF name = "moduleResolution" THEN ModuleResolutionKind
    ELSE IF name = "newLine" THEN NewLineKind
    ELSE IF name \in compilerEnumProperties THEN DOMAIN compilerEnumeration(name)
    ELSE DOMAIN watchEnumeration(name)

GenFields(names) ==
    UNION { {f \in [K -> UNION {ParserCodes(n) : n \in names}] :
               \A k \in K : f[k] \in ParserCodes(k)} :
            K \in {X \in SUBSET names : Cardinality(X) <= MaxFields} }

OptionsFamily ==
    { NativeFile(NoDiag, <<>>,
                 [o \in DOMAIN f \cup {"configFilePath", "strict"} |->
                    IF o \in DOMAIN f THEN Num(f[o])
                    ELSE IF o = "strict" THEN StrVal(<<"T">>) ELSE BaseOptions[o]],
                 hasWatch,
                 IF hasWatch THEN [o \in DOMAIN w |-> Num(w[o])] ELSE NoFields,
                 TRUE, FALSE, <<>>, compileOnSave) :
        f \in GenFields(compilerEnumProperties), w \in GenFields(watchEnumProperties),
        hasWatch \in BOOLEAN, compileOnSave \in BOOLEAN }

ConvertInputs ==
    { [f \in NativeConfigs |-> IF f = "S" THEN file ELSE PlainNative] :
        file \in DiagFamily \cup OptionsFamily }

(* 3. reference graphs: S references nothing, X, or X and Y; X references   *)
(*    nothing or Y; at most one of the files fails to parse                 *)
GraphFile(failing, hasRefs, references) ==
    NativeFile(NoDiag,
               IF failing THEN <<Diag(1, 5023, MessageOf(5023))>> ELSE <<>>,
               BaseOptions, FALSE, NoFields, TRUE, hasRefs, references, FALSE)

GraphInputs ==
    { [f \in NativeConfigs |->
         IF f = "S" THEN GraphFile(bad = "S", refsS # <<>>, refsS)
         ELSE IF f = "X" THEN GraphFile(bad = "X", refsX # <<>>, refsX)
         ELSE GraphFile(bad = f, FALSE, <<>>)] :
        refsS \in {<<>>, <<"X">>, <<"X", "Y">>}, refsX \in {<<>>, <<"Y">>},
        bad \in NativeConfigs \cup {""} }

----------------------------------------------------------------------------
Running == [kind |-> "run", circle |-> <<>>]

ParseIdle ==
    /\ fs = [f \in Files |-> PlainDoc(f)]
    /\ input = F1
    /\ pc = "idle"
    /\ result = NoResult
    /\ mi = 0
    /\ outcome = Running

NativeIdle ==
    /\ conv = NoConv
    /\ cache = [k \in NativeInputs |-> NoValue]
    /\ heap = [f \in NativeConfigs |-> NoObject]
    /\ calls = [c \in CallIds |-> IdleCall]

vars == <<fs, input, pc, result, mi, outcome, nfs, conv, cache, heap, calls>>

(* parse *)
Init ==
    /\ \E c \in Inputs : fs = c.fs /\ input = c.input
    /\ pc = "start"
    /\ result = NoResult
    /\ mi = 0
    /\ outcome = Running
    /\ nfs = [f \in NativeConfigs |-> PlainNative]
    /\ NativeIdle

Next ==
    \/ ParseStart
    \/ ExtendLoad
    \/ ExtendResolveError
    \/ ExtendCircular
    \/ ExtendDone
    \/ MergeOne
    \/ MergeThrows
    \/ MergeDone
    \/ DeleteInvalid

Spec == Init /\ [][Next]_vars

(* one parseFile of the native parser *)
InitConvert ==
    /\ ParseIdle
    /\ nfs \in ConvertInputs
    /\ NativeIdle

NextConvert == \E file \in NativeConfigs : ConvertFile(file)

SpecConvert == InitConvert /\ [][NextConvert]_vars

(* parseNative calls that share one cache *)
InitNative ==
    /\ ParseIdle
    /\ nfs \in GraphInputs
    /\ NativeIdle

NextNative ==
    \E c \in CallIds :
        \/ \E filename \in NativeInputs : ParseNativeBegin(c, filename)
        \/ ParseNativeResolved(c)
        \/ ParseNativeParseFile(c)
        \/ ParseReferencesStart(c)
        \/ ParseReferencesJoin(c)
        \/ ParseNativeFinish(c)

SpecNative == InitNative /\ [][NextNative]_vars

TypeOK == pc \in {"idle", "start", "extends", "merge", "delete", "done"}

----------------------------------------------------------------------------
(* The extends chain of the input, read off the disk *)

Range(q) == {q[i] : i \in DOMAIN q}

RECURSIVE Walk(_)
Walk(q) ==
    LET e == fs[q[Len(q)]].ext
    IN  IF e = NoExtends THEN [chain |-> q, rep |-> <<>>, missing |-> FALSE]
        ELSE IF e \notin Files THEN [chain |-> q, rep |-> <<>>, missing |-> TRUE]
        ELSE IF e \in Range(q) THEN [chain |-> q, rep |-> e, missing |-> FALSE]
        ELSE Walk(Append(q, e))

Chain == Walk(<<input>>)
Cyclic == Chain.rep # <<>>
Acyclic == Chain.rep = <<>> /\ ~Chain.missing
ChainLen == Len(Chain.chain)
DocAt(i) == fs[Chain.chain[i]]
DirAt(i) == dirname(Chain.chain[i])

\* the nearest file of the chain that satisfies P
First(P(_)) == CHOOSE i \in 1..ChainLen : P(i) /\ \A j \in 1..(i - 1) : ~P(j)

\* the value that the starting file gets for key from the i-th file of the chain
Inherited(key, v, i) ==
    IF i = 1 THEN v ELSE rebaseRelative(key, v, pathRelative(DirAt(1), DirAt(i)))

----------------------------------------------------------------------------
(* Claims about parse *)

InheritedTopKeys == {"files", "include", "exclude", "compileOnSave", "typeAcquisition"}

\* C1: for a chain A extends B extends C, parse returns a document that has
\* every inheritable top-level key and every compilerOptions option of the
\* chain, each with the value of the nearest file of the chain that sets it
\* (rebased when it comes from an ancestor)
C1_Inherits ==
    (pc = "done" /\ Acyclic /\ ChainLen >= 3) =>
        /\ outcome.kind = "ok"
        /\ \A k \in InheritedTopKeys :
             (\E i \in 1..ChainLen : k \in DOMAIN DocAt(i).top) =>
                LET src == First(LAMBDA i : k \in DOMAIN DocAt(i).top)
                IN  /\ k \in DOMAIN result.tsconfig.top
                    /\ result.tsconfig.top[k] = Inherited(k, DocAt(src).top[k], src)
        /\ (\E i \in 1..ChainLen : DocAt(i).hasWO) =>
                LET src == First(LAMBDA i : DocAt(i).hasWO)
                IN  /\ result.tsconfig.hasWO
                    /\ result.tsconfig.wo =
                         [o \in DOMAIN DocAt(src).wo |-> Inherited(o, DocAt(src).wo[o], src)]
        /\ (\E i \in 1..ChainLen : DocAt(i).hasCO) =>
                /\ result.tsconfig.hasCO
                /\ \A o \in UNION {DOMAIN DocAt(i).co : i \in 1..ChainLen} :
                     LET src == First(LAMBDA i : o \in DOMAIN DocAt(i).co)
                     IN  /\ o \in DOMAIN result.tsconfig.co
                         /\ result.tsconfig.co[o] = Inherited(o, DocAt(src).co[o], src)

\* C2: parse of a chain that revisits a file ends with the circular-dependency
\* error, whose message lists the files of the chain in the order they were
\* loaded and then the repeated file; it returns no result and never loads a
\* file twice; an acyclic chain never raises that error
C2_Circular ==
    /\ Len(result.extended) <= Cardinality(Files)
    /\ (pc = "done" /\ Cyclic) =>
          /\ outcome.kind = "Circular"
          /\ outcome.circle = Append(Chain.chain, Chain.rep)
    /\ (pc = "done" /\ ~Cyclic) => outcome.kind # "Circular"
    /\ Cyclic => pc \in {"start", "extends", "done"}

\* a cycle that does not pass through the starting file was reported
C2_Witness ==
    /\ pc = "done"
    /\ outcome.kind = "Circular"
    /\ Len(outcome.circle) = 4
    /\ outcome.circle[4] = outcome.circle[2]
    /\ outcome.circle[4] # input

\* C4: the document that parse returns has exactly the keys of the merged
\* document that are on the allow-list: no other key, from the file itself or
\* from an ancestor, and every allow-listed key is kept
C4_AllowList ==
    [][(pc' = "done" /\ outcome'.kind = "ok") =>
          KeysOf(result'.tsconfig) =
             KeysOf(result.tsconfig) \cap
               {"extends", "compilerOptions", "files", "include", "exclude",
                "watchOptions", "references", "compileOnSave", "typeAcquisition"}]_vars

\* a key outside the allow-list came from an ancestor and is not in the result,
\* while allow-listed keys of the ancestors are
C4_Witness ==
    /\ pc = "done"
    /\ outcome.kind = "ok"
    /\ Len(result.extended) >= 2
    /\ "foo" \notin DOMAIN result.extended[1].tsconfig.top
    /\ \E i \in 2..Len(result.extended) : "foo" \in DOMAIN result.extended[i].tsconfig.top
    /\ "foo" \notin KeysOf(result.tsconfig)
    /\ "typeAcquisition" \in KeysOf(result.tsconfig)
    /\ "typeAcquisition" \notin DOMAIN result.extended[1].tsconfig.top

----------------------------------------------------------------------------
RebaseSet ==
    {"files", "include", "exclude", "baseUrl", "paths", "rootDir", "rootDirs",
     "typeRoots", "outDir", "outFile", "declarationDir", "excludeDirectories",
     "excludeFiles"}

\* path q in the starting file denotes what path p denotes in the i-th file
SamePath(p, q, i) ==
    IF p.abs THEN q = p
    ELSE ~q.abs /\ Resolve(DirAt(1), q) = Resolve(DirAt(i), p)

\* value w in the starting file is value v of the i-th file, rebased
SameLocation(key, v, w, i) ==
    IF key \notin RebaseSet THEN w = v
    ELSE /\ w.t = v.t
         /\ Len(w.ps) = Len(v.ps)
         /\ \A n \in DOMAIN v.ps : SamePath(v.ps[n], w.ps[n], i)
         /\ Len(w.m) = Len(v.m)
         /\ \A n \in DOMAIN v.m :
              /\ w.m[n].alias = v.m[n].alias
              /\ w.m[n].t = v.m[n].t
              /\ Len(w.m[n].ps) = Len(v.m[n].ps)
              /\ \A x \in DOMAIN v.m[n].ps : SamePath(v.m[n].ps[x], w.m[n].ps[x], i)

\* the document of the starting file as parse merges into it (compileOnSave set)
OwnDoc == result.extended[1].tsconfig

\* C3: every value that the starting file inherits from an ancestor (the
\* starting file having its own compilerOptions object) is in the result; under
\* a key of the rebase set each relative path of it, resolved against the
\* starting file's directory, is the location that the original denotes from
\* the ancestor's directory, whatever the shape of the value; absolute paths and
\* values of other keys are unchanged
C3_Rebased ==
    (pc = "done" /\ Acyclic /\ ChainLen >= 2 /\ OwnDoc.hasCO) =>
        \A i \in 2..ChainLen :
            /\ \A k \in DOMAIN DocAt(i).top \cap InheritedTopKeys :
                 (k \notin DOMAIN OwnDoc.top
                     /\ \A j \in 2..(i - 1) : k \notin DOMAIN DocAt(j).top) =>
                    /\ outcome.kind = "ok"
                    /\ k \in DOMAIN result.tsconfig.top
                    /\ SameLocation(k, DocAt(i).top[k], result.tsconfig.top[k], i)
            /\ \A o \in DOMAIN DocAt(i).co :
                 (o \notin DOMAIN OwnDoc.co
                     /\ \A j \in 2..(i - 1) : o \notin DOMAIN DocAt(j).co) =>
                    /\ outcome.kind = "ok"
                    /\ o \in DOMAIN result.tsconfig.co
                    /\ SameLocation(o, DocAt(i).co[o], result.tsconfig.co[o], i)
            /\ \A o \in DOMAIN DocAt(i).wo :
                 (~OwnDoc.hasWO /\ \A j \in 2..(i - 1) : ~DocAt(j).hasWO) =>
                    /\ outcome.kind = "ok"
                    /\ o \in DOMAIN result.tsconfig.wo
                    /\ SameLocation(o, DocAt(i).wo[o], result.tsconfig.wo[o], i)

----------------------------------------------------------------------------
(* Claims about parseNative *)

Converted == conv.file # ""

\* the diagnostics reported for the converted file, in order
Reported ==
    IF nfs[conv.file].readError # NoDiag THEN <<nfs[conv.file].readError>>
    ELSE nfs[conv.file].nativeResult.errors

FatalReported == {i \in DOMAIN Reported :
                    Reported[i].category = 1 /\ Reported[i].code \notin {18002, 18003}}

\* C5: the parse of a configuration file fails exactly when a diagnostic of
\* category 1 with a code other than 18002 and 18003 was reported for it, and
\* then with a ParseNativeError that carries "TS " and the code of the first
\* such diagnostic, its message and the native result (when there is one)
C5_FailsIffFatal ==
    Converted =>
        /\ (conv.out.error.name # "none") <=> (FatalReported # {})
        /\ (conv.out.error.name # "none") =>
              LET first == Reported[CHOOSE i \in FatalReported :
                                       \A j \in FatalReported : i <= j]
              IN  /\ conv.out.error.name = "ParseNativeError"
                  /\ conv.out.error.code = <<"TS ", first.code>>
                  /\ conv.out.error.message = first.messageText
                  /\ nfs[conv.file].readError = NoDiag =>
                        /\ conv.out.error.hasResult
                        /\ conv.out.error.result = nfs[conv.file].nativeResult

IsUpper(ch) == \E i \in DOMAIN UpperCase : UpperCase[i] = ch

\* C6: the conversion of a native result never fails on a numeric code, and in
\* the document every present enum-valued field is a string: all lower case
\* for the five compilerOptions fields, first character lower case for the
\* three watchOptions fields
C6_EnumsAreStrings ==
    (Converted /\ FatalReported = {}) =>
        /\ conv.out.error.name = "none"
        /\ \A n \in {"importsNotUsedAsValues", "module", "moduleResolution", "newLine",
                     "target"} \cap DOMAIN conv.out.tsconfig.co :
              /\ ~conv.out.tsconfig.co[n].num
              /\ \A i \in DOMAIN conv.out.tsconfig.co[n].str :
                    ~IsUpper(conv.out.tsconfig.co[n].str[i])
        /\ \A n \in {"watchFile", "watchDirectory", "fallbackPolling"}
                       \cap DOMAIN conv.out.tsconfig.wo :
              /\ ~conv.out.tsconfig.wo[n].num
              /\ conv.out.tsconfig.wo[n].str # <<>>
              /\ ~IsUpper(conv.out.tsconfig.wo[n].str[1])

Returned(c) == calls[c].pc = "done" /\ calls[c].error = NoError

\* the calls so far were made one after the other
Sequential ==
    \A c \in CallIds : \A d \in CallIds :
        (c # d /\ calls[c].pc # "idle" /\ calls[d].pc # "idle") =>
            c \in calls[d].after \/ d \in calls[c].after

RawOf(file) == nfs[file].nativeResult.raw

\* C7: after any sequence of parseNative calls on one cache, a result that
\* parseNative returns for a configuration file whose document has references
\* has `referenced`, the results of the referenced files, one per reference
C7_Referenced ==
    \A c \in CallIds :
        (Sequential /\ Returned(c) /\ RawOf(calls[c].ret.file).hasRefs) =>
            /\ calls[c].retReferenced.has
            /\ calls[c].retReferenced.list =
                  [i \in DOMAIN RawOf(calls[c].ret.file).references |->
                     Ref(RawOf(calls[c].ret.file).references[i])]

\* the solutions: configuration files that reference two project files
Solutions == {f \in NativeConfigs : RawOf(f).hasRefs /\ Len(RawOf(f).references) = 2}

C9_SameOutcome ==
    \A c1 \in CallIds : \A c2 \in CallIds :
        (calls[c2].pc = "done" /\ c1 \in calls[c2].after
            /\ calls[c1].filename = calls[c2].filename) =>
            /\ calls[c2].error = calls[c1].error
            /\ calls[c2].ret = calls[c1].ret

\* C10: an entry of the cache is never removed or replaced, and the result
\* stored under it never changes afterwards
C10_CacheIsAppendOnly ==
    [][\A k \in NativeInputs :
          cache[k] # NoValue =>
             /\ cache'[k] = cache[k]
             /\ ReferencedOf(cache[k], heap') = ReferencedOf(cache[k], heap)]_vars

====
